---------------------------- MODULE Spec2Model ----------------------------
(***************************************************************************)
(* Model of macos-compat/include/threads.h: the C11 <threads.h> shim that  *)
(* forwards thrd_create, thrd_join, thrd_equal, thrd_current, thrd_detach, *)
(* thrd_exit and thrd_sleep onto pthreads and nanosleep.                   *)
(*                                                                         *)
(* The shim's own code is the conversion of return codes and of the exit   *)
(* value (int <-> void * through intptr_t).  The pthread primitives it     *)
(* calls are modelled by their documented effect on a table of threads.    *)
(* One controlling thread (main) owns the handle variables h[1..NSlots]    *)
(* and issues Create / Join / Detach / Sleep; every created thread runs a  *)
(* start routine in three steps (begin, mid, late).                        *)
(***************************************************************************)
EXTENDS Integers, FiniteSets, TLC

(***************************************************************************)
(* Bounds.  The widths are scaled down: a C int has IntBits bits and a     *)
(* pointer IntBits + PtrExtraBits bits.                                    *)
(***************************************************************************)
IntBits == 3
PtrExtraBits == 2
NSlots == 2
MaxQuota == 2
MaxDur == 2
NThreads == 3
NFairSlots == 1

(***************************************************************************)
(* enum { thrd_success, thrd_error, thrd_timedout, thrd_busy, thrd_nomem } *)
(***************************************************************************)
thrd_success == 0
thrd_error == 1
thrd_timedout == 2
thrd_busy == 3
thrd_nomem == 4

StatusEnum == {thrd_success, thrd_error, thrd_timedout, thrd_busy, thrd_nomem}

\* Error numbers the native primitives return (macOS <sys/errno.h>).
Errno == [ESRCH |-> 3, EDEADLK |-> 11, EINVAL |-> 22, EAGAIN |-> 35]

(***************************************************************************)
(* Integer representation.                                                 *)
(***************************************************************************)
Pow2(n) == 2 ^ n
PtrBits == IntBits + PtrExtraBits
IntMin == 0 - Pow2(IntBits - 1)
IntMax == Pow2(IntBits - 1) - 1
IntRange == IntMin .. IntMax

\* The two's-complement value of the w-bit pattern `bits`.
ToSigned(bits, w) == IF bits >= Pow2(w - 1) THEN bits - Pow2(w) ELSE bits

\* (intptr_t)res: an int widened to intptr_t keeps its value (sign extension).
IntToIntptr(v) == v

\* (void *)x: the pointer carries the PtrBits-bit pattern of the intptr_t.
IntptrToPtr(x) == x % Pow2(PtrBits)

\* (intptr_t)retval: the pointer's bit pattern read as a signed integer.
PtrToIntptr(p) == ToSigned(p, PtrBits)

\* Slip: the low bits read as an unsigned number.
IntptrToIntUnsigned(x) == x % Pow2(IntBits)

\* (int)x: an intptr_t narrowed to int keeps the low IntBits bits.
IntptrToInt(x) == ToSigned(x % Pow2(IntBits), IntBits)

\* thrd_exit: (void *)(intptr_t)res
EncodeExit(res) == IntptrToPtr(IntToIntptr(res))

\* thrd_join: (int)(intptr_t)retval
DecodeRetval(p) == IntptrToInt(PtrToIntptr(p))

(***************************************************************************)
(* thrd_create passes func cast to void *(*)(void *).  The routine still   *)
(* returns an int: the low IntBits bits of the return register hold it and *)
(* the bits above them are whatever the routine left there.                *)
(***************************************************************************)
CastReturn(v, hi) == hi * Pow2(IntBits) + (v % Pow2(IntBits))
HiBits == 0 .. (Pow2(PtrExtraBits) - 1)

(***************************************************************************)
(* Thread identities.  pthread_t values: 0 is the zero-initialised handle  *)
(* that names no thread, MainThrd is the controlling thread, Workers are   *)
(* the values pthread_create hands out (reused once a thread is reaped).   *)
(***************************************************************************)
MainThrd == 1
WorkerIds(n) == 2 .. (n + 1)

NoArg == [idx |-> 0, ret |-> 0, code |-> 0]

\* A table entry that holds no thread.
FreeThread ==
  [st |-> "free", det |-> FALSE, pc |-> "none", arg |-> NoArg,
   retval |-> 0, exited |-> FALSE, late |-> FALSE, me |-> 0]

VARIABLES
  thr,      \* native thread table: Workers -> thread record
  h,        \* main's handle variables: Slots -> pthread_t value
  hlive,    \* Slots -> the thread created into the slot is not yet reaped
  quota,    \* threads the system still lets the process create
  main,     \* the controlling thread's position (idle, joining, sleeping)
  res,      \* main's int that thrd_join's res may point to
  rem,      \* main's timespec that thrd_sleep's rem may point to
  ret,      \* the shim call main completed last and the status it returned
  counter,  \* shared counter, incremented under the external lock
  flag,     \* Slots -> the slot's start routine has performed its side effect
  got       \* Slots -> exit codes the scenario's main has collected

vars == <<thr, h, hlive, quota, main, res, rem, ret, counter, flag, got>>

Slots == DOMAIN h
Workers == DOMAIN thr


(***************************************************************************)
(* The native primitives, by their effect on the thread table T.           *)
(***************************************************************************)

\* Whether pthread_t value t names a thread the system still knows.
NativeValid(T, t) == t = MainThrd \/ (t \in DOMAIN T /\ T[t].st # "free")

\* pthread_create succeeds when the system grants a thread (quota q) and
\* EAGAIN otherwise.
pthread_create(T, q) ==
  IF q > 0 /\ \E t \in DOMAIN T : T[t].st = "free" THEN 0 ELSE Errno.EAGAIN

\* The table once pthread_create has started thread t on func(arg).
Spawn(T, t, a) ==
  [T EXCEPT ![t] = [st |-> "run", det |-> FALSE, pc |-> "begin", arg |-> a,
                    retval |-> 0, exited |-> FALSE, late |-> FALSE, me |-> 0]]

\* pthread_join's checks before it waits: the error it returns at once, or 0
\* when the caller is to wait for thread t.
pthread_join(T, self, t) ==
  IF ~NativeValid(T, t) THEN Errno.ESRCH
  ELSE IF t # MainThrd /\ T[t].det THEN Errno.EINVAL
  ELSE IF t = self THEN Errno.EDEADLK
  ELSE 0

\* Slip: the wait ends at once.
JoinReadyAtOnce(T, t) == TRUE

\* pthread_join's wait ends when the target has terminated.
JoinReady(T, t) == T[t].st = "done"

\* Slip: the thread is left joinable.
pthread_detach_noop(T, t) == [rc |-> 0, tab |-> T]

\* pthread_detach: [rc, tab].  A thread that has already terminated is
\* reclaimed at once; a running one is reclaimed when it terminates.
pthread_detach(T, t) ==
  IF ~NativeValid(T, t) THEN [rc |-> Errno.ESRCH, tab |-> T]
  ELSE IF T[t].det THEN [rc |-> Errno.EINVAL, tab |-> T]
  ELSE IF T[t].st = "done" THEN [rc |-> 0, tab |-> [T EXCEPT ![t] = FreeThread]]
  ELSE [rc |-> 0, tab |-> [T EXCEPT ![t].det = TRUE]]

\* pthread_self
pthread_self(self) == self

\* pthread_equal: nonzero when the two values name the same thread.
pthread_equal(a, b) == IF a = b THEN 1 ELSE 0

\* pthread_exit(p): the thread stops where it is, p is its exit value.
pthread_exit(rec, p) ==
  [rec EXCEPT !.st = "done", !.pc = "none", !.retval = p, !.exited = TRUE]

\* The start routine returning v to the thread's entry point: the thread
\* terminates with the routine's return register as its exit value.
RoutineReturns(rec, v, hi) ==
  [rec EXCEPT !.st = "done", !.pc = "none", !.retval = CastReturn(v, hi),
              !.late = TRUE]

\* The system reclaims a terminated thread that was detached.
Reclaim(rec) == IF rec.st = "done" /\ rec.det THEN FreeThread ELSE rec

\* Slip: one tick short.
NanosleepElapsedEarly(dur, elapsed) == elapsed + 1 >= dur

\* nanosleep completes once the requested time has elapsed.
NanosleepElapsed(dur, elapsed) == elapsed >= dur

(***************************************************************************)
(* The shim's operations: what each makes of the native result.            *)
(***************************************************************************)

\* Slip: the test inverted.
thrd_create_inverted(rc) == IF rc # 0 THEN thrd_success ELSE thrd_error

\* return pthread_create(...) ? thrd_error : thrd_success;
thrd_create(rc) == IF rc # 0 THEN thrd_error ELSE thrd_success

\* Slip: *res written before the result of pthread_join is looked at.
thrd_join_writes_first(rc, retval, resOld, resPtr) ==
  [status |-> IF rc # 0 THEN thrd_error ELSE thrd_success,
   res |-> IF resPtr THEN DecodeRetval(retval) ELSE resOld]

\* Slip: *res never written.
thrd_join_no_result(rc, retval, resOld, resPtr) ==
  [status |-> IF rc # 0 THEN thrd_error ELSE thrd_success, res |-> resOld]

\* if (pthread_join(thr, &retval)) return thrd_error;
\* if (res) *res = (int)(intptr_t)retval;  return thrd_success;
thrd_join(rc, retval, resOld, resPtr) ==
  IF rc # 0 THEN [status |-> thrd_error, res |-> resOld]
  ELSE [status |-> thrd_success,
        res |-> IF resPtr THEN DecodeRetval(retval) ELSE resOld]

\* return pthread_equal(a, b);
thrd_equal(a, b) == pthread_equal(a, b)

\* Slip: the identity of the thread that runs main.
thrd_current_main(self) == MainThrd

\* return pthread_self();
thrd_current(self) == pthread_self(self)

\* Slip: the native error number passed through.
thrd_detach_raw(rc) == rc

\* return pthread_detach(thr) ? thrd_error : thrd_success;
thrd_detach(rc) == IF rc # 0 THEN thrd_error ELSE thrd_success

\* Slip: the exit value is stored and the call returns to the routine.
thrd_exit_returns(rec, code) ==
  [rec EXCEPT !.retval = EncodeExit(code), !.exited = TRUE, !.pc = "late"]

\* pthread_exit((void *)(intptr_t)res);
thrd_exit(rec, code) == pthread_exit(rec, EncodeExit(code))

\* return nanosleep(dur, rem);
thrd_sleep(rc) == rc


(***************************************************************************)
(* State.                                                                  *)
(***************************************************************************)
Idle == [pc |-> "idle", slot |-> 0, target |-> 0, ptr |-> FALSE,
         dur |-> 0, elapsed |-> 0]

\* What main notes when a call returns.  intr: a signal cut the call short;
\* exited: the thread a join reaped had ended through thrd_exit.
Returned(op, status, s, intr, exited) ==
  [op |-> op, status |-> status, slot |-> s, intr |-> intr, exited |-> exited]

\* hlive once thread t has been reaped: no handle to it is live any more.
Reaped(t) == [s \in Slots |-> hlive[s] /\ h[s] # t]

\* hlive after the table changed to T.
LiveAfter(T) == [s \in Slots |-> hlive[s] /\ T[h[s]].st # "free"]

InitWith(nslots, q) ==
  /\ thr = [t \in WorkerIds(nslots) |-> FreeThread]
  /\ h = [s \in 1 .. nslots |-> 0]
  /\ hlive = [s \in 1 .. nslots |-> FALSE]
  /\ quota = q
  /\ main = Idle
  /\ res = -1
  /\ rem = -1
  /\ ret = [op |-> "none", status |-> 0, slot |-> 0, intr |-> FALSE,
            exited |-> FALSE]
  /\ counter = 0
  /\ flag = [s \in 1 .. nslots |-> FALSE]
  /\ got = [s \in 1 .. nslots |-> -1]

(***************************************************************************)
(* main: thrd_create(&h[s], func, a)                                       *)
(***************************************************************************)
Create(s, a) ==
  /\ main.pc = "idle"
  /\ ~hlive[s]
  /\ LET rc == pthread_create(thr, quota)
     IN  /\ IF rc = 0
            THEN \E t \in Workers :
                   /\ thr[t].st = "free"
                   /\ thr' = Spawn(thr, t, a)
                   /\ h' = [h EXCEPT ![s] = t]
                   /\ hlive' = [hlive EXCEPT ![s] = TRUE]
                   /\ quota' = quota - 1
            ELSE \* the contents of *thr are unspecified after a failure
                 /\ \E g \in {h[s]} \cup Workers : h' = [h EXCEPT ![s] = g]
                 /\ UNCHANGED <<thr, hlive, quota>>
         /\ ret' = Returned("create", thrd_create(rc), s, FALSE, FALSE)
  /\ flag' = [flag EXCEPT ![s] = FALSE]
  /\ UNCHANGED <<main, res, rem, counter, got>>

(***************************************************************************)
(* main: thrd_join(h[s], res) or, with s = 0, thrd_join(thrd_current(),    *)
(* res).  ptr is whether res is a non-null pointer (to main's res).        *)
(***************************************************************************)
JoinCall(s, ptr) ==
  /\ main.pc = "idle"
  /\ LET t  == IF s = 0 THEN thrd_current(MainThrd) ELSE h[s]
         rc == pthread_join(thr, MainThrd, t)
     IN  IF rc # 0
         THEN LET r == thrd_join(rc, 0, res, ptr)
              IN  /\ res' = r.res
                  /\ ret' = Returned("join", r.status, s, FALSE, FALSE)
                  /\ UNCHANGED main
         ELSE /\ main' = [Idle EXCEPT !.pc = "joining", !.slot = s,
                                      !.target = t, !.ptr = ptr]
              /\ UNCHANGED <<res, ret>>
  /\ UNCHANGED <<thr, h, hlive, quota, rem, counter, flag, got>>

\* pthread_join's wait is over: the target is reaped, thrd_join returns.
JoinReturnCore ==
  /\ main.pc = "joining"
  /\ JoinReady(thr, main.target)
  /\ LET t == main.target
         r == thrd_join(0, thr[t].retval, res, main.ptr)
     IN  /\ res' = r.res
         /\ ret' = Returned("join", r.status, main.slot, FALSE, thr[t].exited)
         /\ thr' = [thr EXCEPT ![t] = FreeThread]
         /\ hlive' = Reaped(t)
  /\ main' = Idle
  /\ UNCHANGED <<h, quota, rem, counter, flag>>

JoinReturn == JoinReturnCore /\ UNCHANGED got

(***************************************************************************)
(* main: thrd_detach(h[s])                                                 *)
(***************************************************************************)
Detach(s) ==
  /\ main.pc = "idle"
  /\ LET d == pthread_detach(thr, h[s])
     IN  /\ thr' = d.tab
         /\ hlive' = LiveAfter(d.tab)
         /\ ret' = Returned("detach", thrd_detach(d.rc), s, FALSE, FALSE)
  /\ UNCHANGED <<h, quota, main, res, rem, counter, flag, got>>

(***************************************************************************)
(* A created thread t running its start routine func(arg).                 *)
(***************************************************************************)

\* First step: the routine asks who it is and performs its side effects
\* (the counter is incremented under the callers' own lock).
RoutineBegin(t) ==
  /\ thr[t].st = "run" /\ thr[t].pc = "begin"
  /\ thr' = [thr EXCEPT ![t].pc = "mid", ![t].me = thrd_current(t)]
  /\ counter' = counter + 1
  /\ flag' = [flag EXCEPT ![thr[t].arg.idx] = TRUE]
  /\ UNCHANGED <<h, hlive, quota, main, res, rem, ret, got>>

\* The routine calls thrd_exit(arg.code) half way.
RoutineExit(t) ==
  /\ thr[t].st = "run" /\ thr[t].pc = "mid"
  /\ LET T == [thr EXCEPT ![t] = Reclaim(thrd_exit(thr[t], thr[t].arg.code))]
     IN  thr' = T /\ hlive' = LiveAfter(T)
  /\ UNCHANGED <<h, quota, main, res, rem, ret, counter, flag, got>>

\* The routine goes on past the middle instead.
RoutineContinue(t) ==
  /\ thr[t].st = "run" /\ thr[t].pc = "mid"
  /\ thr' = [thr EXCEPT ![t].pc = "late", ![t].late = TRUE]
  /\ UNCHANGED <<h, hlive, quota, main, res, rem, ret, counter, flag, got>>

\* Last step: the routine returns arg.ret, with hi in the bits of the return
\* register above the int.
RoutineReturn(t, hi) ==
  /\ thr[t].st = "run" /\ thr[t].pc = "late"
  /\ LET T == [thr EXCEPT ![t] = Reclaim(RoutineReturns(thr[t], thr[t].arg.ret, hi))]
     IN  thr' = T /\ hlive' = LiveAfter(T)
  /\ UNCHANGED <<h, quota, main, res, rem, ret, counter, flag, got>>

(***************************************************************************)
(* main: thrd_sleep(&dur, rem).  ptr is whether rem is non-null.           *)
(***************************************************************************)
SleepCall(d, ptr) ==
  /\ main.pc = "idle"
  /\ main' = [Idle EXCEPT !.pc = "sleeping", !.dur = d, !.ptr = ptr]
  /\ UNCHANGED <<thr, h, hlive, quota, res, rem, ret, counter, flag, got>>

\* Time passes while main sleeps.
Tick ==
  /\ main.pc = "sleeping"
  /\ main.elapsed <= MaxDur
  /\ main' = [main EXCEPT !.elapsed = main.elapsed + 1]
  /\ UNCHANGED <<thr, h, hlive, quota, res, rem, ret, counter, flag, got>>

\* nanosleep returns 0: the requested time has elapsed.  (main keeps the
\* duration it asked for and the time it slept until its next blocking call.)
SleepWake ==
  /\ main.pc = "sleeping"
  /\ NanosleepElapsed(main.dur, main.elapsed)
  /\ ret' = Returned("sleep", thrd_sleep(0), 0, FALSE, FALSE)
  /\ main' = [main EXCEPT !.pc = "idle"]
  /\ UNCHANGED <<thr, h, hlive, quota, res, rem, counter, flag, got>>

\* A signal handler runs in main before the time has elapsed: nanosleep
\* returns -1 (EINTR) and stores the unslept time through a non-null rem.
SleepInterrupt ==
  /\ main.pc = "sleeping"
  /\ main.elapsed < main.dur
  /\ rem' = IF main.ptr THEN main.dur - main.elapsed ELSE rem
  /\ ret' = Returned("sleep", thrd_sleep(-1), 0, TRUE, FALSE)
  /\ main' = Idle
  /\ UNCHANGED <<thr, h, hlive, quota, res, counter, flag, got>>

(***************************************************************************)
(* The steps of the created threads, and one thread's next step.           *)
(***************************************************************************)
RoutineStep(t) ==
  \/ RoutineBegin(t)
  \/ RoutineExit(t)
  \/ RoutineContinue(t)
  \/ \E hi \in HiBits : RoutineReturn(t, hi)

(***************************************************************************)
(* Spec: main with NSlots handles creating, joining and detaching threads. *)
(***************************************************************************)
Args(s) == {[idx |-> s, ret |-> IntMin, code |-> IntMax]}

\* The bits above the int all clear or all set.
HiEnds == {0, Pow2(PtrExtraBits) - 1}

Init == InitWith(NSlots, MaxQuota)

Next ==
  \/ \E s \in Slots : \E a \in Args(s) : Create(s, a)
  \/ \E s \in {0} \cup Slots : \E ptr \in BOOLEAN : JoinCall(s, ptr)
  \/ JoinReturn
  \/ \E s \in Slots : Detach(s)
  \/ \E t \in Workers : RoutineBegin(t)
  \/ \E t \in Workers : RoutineExit(t)
  \/ \E t \in Workers : RoutineContinue(t)
  \/ \E t \in Workers : \E hi \in HiEnds : RoutineReturn(t, hi)

Spec == Init /\ [][Next]_vars

(***************************************************************************)
(* FairSpec: the same program with NFairSlots handles under the            *)
(* scheduler's guarantees: a thread that can run its routine's next step   *)
(* eventually does, and a joiner whose target has terminated eventually    *)
(* returns.                                                                *)
(***************************************************************************)
FairInit == InitWith(NFairSlots, MaxQuota)

FairSpec ==
  /\ FairInit /\ [][Next]_vars
  /\ \A t \in WorkerIds(NFairSlots) : WF_vars(RoutineStep(t))
  /\ WF_vars(JoinReturn)

(***************************************************************************)
(* AllSpec: one handle, every status-returning operation, thrd_sleep       *)
(* included.                                                               *)
(***************************************************************************)
AllInit == InitWith(1, MaxQuota)

AllNext ==
  \/ \E a \in Args(1) : Create(1, a)
  \/ \E s \in {0, 1} : \E ptr \in BOOLEAN : JoinCall(s, ptr)
  \/ JoinReturn
  \/ Detach(1)
  \/ \E t \in Workers : RoutineBegin(t)
  \/ \E t \in Workers : RoutineExit(t)
  \/ \E t \in Workers : RoutineContinue(t)
  \/ \E t \in Workers : \E hi \in HiEnds : RoutineReturn(t, hi)
  \/ \E d \in 0 .. MaxDur : \E ptr \in BOOLEAN : SleepCall(d, ptr)
  \/ Tick
  \/ SleepWake
  \/ SleepInterrupt

AllSpec == AllInit /\ [][AllNext]_vars

(***************************************************************************)
(* CodecSpec: one thread at a time, its return value and its exit code     *)
(* drawn from the whole range of int.                                      *)
(***************************************************************************)
FullArgs == {[idx |-> 1, ret |-> v, code |-> c] : v \in IntRange, c \in IntRange}

CodecInit == InitWith(1, MaxQuota)

CodecNext ==
  \/ \E a \in FullArgs : Create(1, a)
  \/ \E ptr \in BOOLEAN : JoinCall(1, ptr)
  \/ JoinReturn
  \/ \E t \in Workers : RoutineBegin(t)
  \/ \E t \in Workers : RoutineExit(t)
  \/ \E t \in Workers : RoutineContinue(t)
  \/ \E t \in Workers : \E hi \in HiBits : RoutineReturn(t, hi)

CodecSpec == CodecInit /\ [][CodecNext]_vars

(***************************************************************************)
(* ScenarioSpec: main creates NThreads threads one after the other, each   *)
(* increments the counter and exits with its own index (slot s has index   *)
(* s - 1); once all are created main joins each handle once and collects   *)
(* the code.  The system grants the NThreads threads.                      *)
(***************************************************************************)
ScenarioInit == InitWith(NThreads, NThreads)

ScenarioCreate(s) ==
  /\ s = (NThreads - quota) + 1
  /\ Create(s, [idx |-> s, ret |-> IntMin, code |-> s - 1])

ScenarioJoinCall(s) ==
  /\ quota = 0
  /\ got[s] = -1
  /\ JoinCall(s, TRUE)

ScenarioJoinReturn ==
  /\ JoinReturnCore
  /\ got' = [got EXCEPT ![main.slot] = res']

ScenarioNext ==
  \/ \E s \in Slots : ScenarioCreate(s)
  \/ \E s \in Slots : ScenarioJoinCall(s)
  \/ ScenarioJoinReturn
  \/ \E t \in Workers : RoutineBegin(t)
  \/ \E t \in Workers : RoutineExit(t)

ScenarioSpec == ScenarioInit /\ [][ScenarioNext]_vars


(***************************************************************************)
(* Steps of main named by what returned.                                   *)
(***************************************************************************)
\* thrd_create returns in this step.
CreateReturns == \E s \in Slots : \E a \in Args(s) : Create(s, a)

\* thrd_join returns from its wait in this step.
JoinWakes == JoinReturnCore

\* thrd_join returns in this step, from its wait or at once.
JoinReturns ==
  \/ JoinWakes
  \/ main'.pc = "idle" /\ \E s \in {0} \cup Slots : \E ptr \in BOOLEAN : JoinCall(s, ptr)

\* thrd_sleep returns in this step.
SleepReturns == SleepWake \/ SleepInterrupt

(***************************************************************************)
(* C1.  Create followed by a successful Join with a non-null res leaves    *)
(* res equal to the value the start routine returned, for every value of   *)
(* int: the int -> pointer -> int passage is the identity.                 *)
(***************************************************************************)
C1_JoinYieldsReturnValue ==
  [][(JoinWakes /\ ret'.status = thrd_success /\ main.ptr
        /\ ~thr[main.target].exited)
       => res' = thr[main.target].arg.ret]_vars

\* A join has delivered the most negative int a routine returned.
C1_Witness ==
  /\ ret.op = "join" /\ ret.status = thrd_success /\ ~ret.exited
  /\ res = IntMin

(***************************************************************************)
(* C2.  A thread that calls thrd_exit(code) stops there: it takes no       *)
(* further step of its routine, and a successful Join on it delivers code, *)
(* not the value the routine would have returned.                          *)
(***************************************************************************)
C2_ExitTerminatesAndDelivers ==
  /\ [](\A t \in Workers : thr[t].exited => thr[t].st = "done" /\ ~thr[t].late)
  /\ [][\A t \in Workers : thr[t].exited => ~RoutineStep(t)]_vars
  /\ [][(JoinWakes /\ ret'.status = thrd_success /\ main.ptr
           /\ thr[main.target].exited)
          => res' = thr[main.target].arg.code]_vars

\* A join has delivered the code IntMax that its target passed to thrd_exit.
C2_Witness ==
  /\ ret.op = "join" /\ ret.status = thrd_success /\ ret.exited
  /\ res = IntMax

(***************************************************************************)
(* C3.  As claimed: every status Create, Join, Detach and Sleep return is  *)
(* a member of {thrd_success, ..., thrd_nomem}.                            *)
(***************************************************************************)
C3_AllStatusesInEnum ==
  ret.op \in {"create", "join", "detach", "sleep"} => ret.status \in StatusEnum

(***************************************************************************)
(* C3, amended.  Create, Join and Detach return thrd_success or            *)
(* thrd_error; Sleep returns what nanosleep returns: 0 after the time has  *)
(* elapsed and -1, which is no member of the enumeration, when it is       *)
(* interrupted.                                                            *)
(***************************************************************************)
C3_Statuses ==
  /\ ret.op \in {"create", "join", "detach"}
       => ret.status \in {thrd_success, thrd_error}
  /\ ret.op = "sleep" => ret.status = (IF ret.intr THEN -1 ELSE 0)

\* Detach has failed in the native layer and Error came back.
C3_Witness == ret.op = "detach" /\ ret.status = thrd_error

(***************************************************************************)
(* C4.  As claimed: thrd_create returns Success exactly when the native    *)
(* creation succeeds, and then the handle names the new thread; when it    *)
(* fails it returns Error, no thread is started and the handle keeps its   *)
(* value.                                                                  *)
(***************************************************************************)
CreateOutcome(keepsHandle) ==
  LET s  == ret'.slot
      ok == pthread_create(thr, quota) = 0
  IN  /\ (ret'.status = thrd_success) <=> ok
      /\ ok => /\ thr[h'[s]].st = "free"
               /\ thr'[h'[s]].st = "run"
               /\ thr'[h'[s]].arg.idx = s
               /\ \A t \in Workers \ {h'[s]} : thr'[t] = thr[t]
      /\ ~ok => /\ ret'.status = thrd_error
                /\ thr' = thr
                /\ keepsHandle => h' = h

C4_FailureKeepsHandle == [][CreateReturns => CreateOutcome(TRUE)]_vars

(***************************************************************************)
(* C4, amended.  The same, except that after a failed creation the handle  *)
(* holds whatever the native creation left in it: the shim hands its       *)
(* caller's pointer to pthread_create and neither saves nor restores the   *)
(* value.                                                                  *)
(***************************************************************************)
C4_CreateOutcome == [][CreateReturns => CreateOutcome(FALSE)]_vars

\* A creation has failed while another thread was running.
C4_Witness ==
  /\ ret.op = "create" /\ ret.status = thrd_error
  /\ \E t \in Workers : thr[t].st = "run"

(***************************************************************************)
(* C5.  thrd_join returns Success only after its target has terminated; a  *)
(* joiner that waits keeps waiting while the target runs; once the target  *)
(* has terminated the joiner returns.                                      *)
(***************************************************************************)
C5_JoinWaitsForTermination ==
  /\ [][(JoinReturns /\ ret'.status = thrd_success)
          => (main.pc = "joining" /\ thr[main.target].st = "done")]_vars
  /\ [][(main.pc = "joining" /\ thr[main.target].st = "run")
          => main'.pc = "joining"]_vars
  /\ (main.pc = "joining" /\ thr[main.target].st = "done") ~> (main.pc = "idle")

\* main waits in thrd_join while its target is still in its routine.
C5_Witness ==
  /\ main.pc = "joining"
  /\ thr[main.target].st = "run" /\ thr[main.target].pc = "late"

(***************************************************************************)
(* C6.  For every live handle h[s]: thrd_current() inside a running thread *)
(* compares equal to h[s] exactly when that thread is the one created into *)
(* slot s, main's thrd_current() never does, and two calls of              *)
(* thrd_current() by one thread compare equal.                             *)
(***************************************************************************)
C6_CurrentEqualsOwnHandle ==
  /\ \A s \in Slots : hlive[s] =>
       /\ \A t \in Workers : thr[t].st = "run" =>
            ((thrd_equal(thrd_current(t), h[s]) # 0) <=> (thr[t].arg.idx = s))
       /\ thrd_equal(thrd_current(MainThrd), h[s]) = 0
  /\ \A t \in Workers : (thr[t].st = "run" /\ thr[t].pc # "begin") =>
       thrd_equal(thr[t].me, thrd_current(t)) # 0
  /\ thrd_equal(thrd_current(MainThrd), thrd_current(MainThrd)) # 0

\* Two created threads run at once, each past its first thrd_current().
C6_Witness ==
  \E s1, s2 \in Slots :
    /\ s1 # s2 /\ hlive[s1] /\ hlive[s2]
    /\ thr[h[s1]].st = "run" /\ thr[h[s1]].pc = "mid"
    /\ thr[h[s2]].st = "run" /\ thr[h[s2]].pc = "late"

(***************************************************************************)
(* C7.  After thrd_detach succeeds on a created thread that has not been   *)
(* joined, the thread stays as it was, its routine's side effect becomes   *)
(* visible and it runs to completion and is reclaimed with no Join; no     *)
(* joiner is ever waiting for a detached thread.                           *)
(***************************************************************************)
DetachedLive(s) ==
  ret.op = "detach" /\ ret.status = thrd_success /\ ret.slot = s /\ hlive[s]

C7_DetachedRunsToCompletion ==
  /\ \A s \in 1 .. NFairSlots : DetachedLive(s) ~> (flag[s] /\ ~hlive[s])
  /\ [](main.pc = "joining" => ~thr[main.target].det)

\* A thread that had not yet performed its side effect has been detached.
C7_Witness == \E s \in Slots : DetachedLive(s) /\ ~flag[s]

(***************************************************************************)
(* C8.  ScenarioSpec: every Create and every Join returns Success, the     *)
(* Join on the handle of slot s delivers that thread's index s - 1, and    *)
(* when all are joined the collected codes are 0 .. NThreads - 1 and the   *)
(* counter is NThreads.                                                    *)
(***************************************************************************)
AllJoined == main.pc = "idle" /\ quota = 0 /\ \A s \in Slots : ~hlive[s]

C8_ScenarioCollectsEveryIndex ==
  /\ ret.op \in {"create", "join"} => ret.status = thrd_success
  /\ \A s \in Slots : got[s] # -1 => got[s] = s - 1
  /\ AllJoined => /\ counter = NThreads
                  /\ {got[s] : s \in Slots} = 0 .. (NThreads - 1)

\* Every thread of the scenario has been joined.
C8_Witness == AllJoined /\ counter = NThreads

(***************************************************************************)
(* C9.  A thrd_sleep that no signal interrupts returns only once the       *)
(* requested time has elapsed, and returns 0.                              *)
(***************************************************************************)
C9_SleepNeverShort ==
  [][(SleepReturns /\ ~ret'.intr)
       => (main.elapsed >= main.dur /\ ret'.status = 0)]_vars

\* A sleep of MaxDur ticks has returned 0 after more than MaxDur ticks.
C9_Witness ==
  /\ ret.op = "sleep" /\ ret.status = 0 /\ ~ret.intr
  /\ main.pc = "idle" /\ main.dur = MaxDur /\ main.elapsed > MaxDur

(***************************************************************************)
(* C10.  thrd_join writes *res only when the join succeeds and res is not  *)
(* null: a failed native wait gives Error and leaves main's res as it was, *)
(* a successful join with a null res gives Success and leaves it too.      *)
(***************************************************************************)
C10_JoinWritesOnlyOnSuccess ==
  [][JoinReturns =>
       /\ (ret'.status = thrd_success) <=> (main.pc = "joining")
       /\ ret'.status # thrd_success => (ret'.status = thrd_error /\ res' = res)
       /\ (ret'.status = thrd_success /\ ~main.ptr) => res' = res
       /\ (ret'.status = thrd_success /\ main.ptr)
            => res' = DecodeRetval(thr[main.target].retval)]_vars

\* A join has failed after an earlier join had stored a result.
C10_Witness == ret.op = "join" /\ ret.status = thrd_error /\ res # -1

=============================================================================
